---------------------------- MODULE Spec2Model ----------------------------
(***************************************************************************)
(* Model of the log monitoring agent (agents/log_monitor.py) and of the    *)
(* issue service it writes to (api/controllers/services.py).               *)
(*                                                                         *)
(* Text is modelled character by character: a Python str is a sequence of  *)
(* one-character strings, so that the regular expressions of the monitor    *)
(* (ANSI removal, timestamp detection, level detection, title stripping)    *)
(* are computed as the code computes them.  The escape character 0x1B is    *)
(* the symbol ESC.  The watched file is a sequence of bytes; the two bytes  *)
(* of one two-byte UTF-8 character are the symbols LEAD and CONT.           *)
(*                                                                         *)
(* One list of variables serves several specifications: the monitor beside *)
(* its log (Spec, SpecHeuristic), extract_errors on a batch (SpecExtract,  *)
(* SpecExtractFaults), the tailer alone (SpecTail), two monitors on one    *)
(* table (SpecRace), and the pure functions applied to sets of inputs      *)
(* (SpecSanitize, SpecTitle, SpecLevel).                                   *)
(***************************************************************************)
EXTENDS Integers, Sequences, FiniteSets, TLC

VARIABLES
    \* a pure function under test
    arg,                \* its input
    res,                \* the results of its successive applications
    \* the watched file, owned by the environment
    file,               \* its bytes
    file_state,         \* "present", "missing" or "unreadable"
    appends,            \* how many writes the environment has made
    \* AdvancedLogMonitor
    last_position,      \* self.last_position
    total_processed,    \* self.total_processed
    total_errors,       \* self.total_errors
    failed_to_process,  \* self.failed_to_process
    errors_found,       \* self.errors_found
    errors_failed_to_insert,    \* self.errors_failed_to_insert
    use_llm,            \* self.use_llm (with self.ticket_generator set)
    audit,              \* the JSON array of self.output_file
    \* the issues table behind IssueService
    store,
    \* the control state of monitor() and the locals of the running calls
    pc,                 \* where the polling loop stands
    new_lines,          \* what read_new_lines returned last
    i,                  \* extract_errors: the index into lines (from 0)
    errors,             \* extract_errors: the records collected so far
    cur,                \* save_error: the record being saved
    content,            \* save_error: the generated title and description
    \* history, read by the properties only
    tail_log,           \* what the last poll read, and how often each byte was read
    reconciled,         \* one entry per completed save_error
    skipped,            \* one entry per exception caught in extract_errors
    \* two monitors run side by side against one issues table
    instances,          \* per monitor: its records, its step in save_error
    \* the processes that ran before the one that runs now
    runs                \* per ended process: what it left behind

tailVars == <<file, file_state, appends, last_position, new_lines, tail_log>>

counterVars == <<total_processed, total_errors, failed_to_process,
                 errors_found, errors_failed_to_insert>>

saveVars == <<use_llm, audit, store, cur, content, reconciled>>

scanVars == <<pc, i, errors>>

pureVars == <<arg, res>>

otherVars == <<skipped, instances, runs>>

vars == <<pureVars, tailVars, counterVars, saveVars, scanVars, otherVars>>

----------------------------------------------------------------------------
(* Characters and character classes *)

ESC == "ESC"
NL == "\n"

\* the bytes 0xC3 0xA9 and the character they encode
LEAD == "C3"
CONT == "A9"
U00E9 == "U+00E9"

Digit == {"0", "1", "2", "3", "4", "5", "6", "7", "8", "9"}

Upper == {"A", "B", "C", "D", "E", "F", "G", "H", "I", "J", "K", "L", "M",
          "N", "O", "P", "Q", "R", "S", "T", "U", "V", "W", "X", "Y", "Z"}

Lower == {"a", "b", "c", "d", "e", "f", "g", "h", "i", "j", "k", "l", "m",
          "n", "o", "p", "q", "r", "s", "t", "u", "v", "w", "x", "y", "z"}

\* \w of Python's re on str
WordChar == Upper \cup Lower \cup Digit \cup {"_", U00E9}

\* what str.strip()/rstrip() remove and \s matches
Whitespace == {" ", "\t", NL, "\r"}

\* [@-Z\\-_] : the byte after ESC of a two-character escape (the backslash,
\* the double quote and the backquote are left out of the modelled alphabet)
EscSecond == {"@"} \cup Upper \cup {"]", "^", "_"}

\* [0-?] : parameter bytes of a CSI sequence
CsiParam == Digit \cup {":", ";", "<", "=", ">", "?"}

\* [ -/] : intermediate bytes of a CSI sequence
CsiInter == {" ", "!", "#", "$", "%", "&", "'", "(", ")", "*", "+",
             ",", "-", ".", "/"}

\* [@-~] : final byte of a CSI sequence
CsiFinal == {"@"} \cup Upper \cup {"[", "]", "^", "_"} \cup Lower
            \cup {"{", "|", "}", "~"}

----------------------------------------------------------------------------
(* Sequence helpers *)

Max(S) == CHOOSE x \in S : \A y \in S : y <= x

Min(S) == CHOOSE x \in S : \A y \in S : x <= y

\* s[a..b] as Python's s[a-1:b]; empty when b < a
Slice(s, a, b) == IF b < a THEN <<>> ELSE SubSeq(s, a, b)

\* the first position in p..n that is in hits, n + 1 when there is none
First(p, n, hits) == Min({q \in p..n : q \in hits} \cup {n + 1})

\* the number of consecutive characters of s from position p that are in cls
RunLen(s, p, cls) ==
    IF p > Len(s) THEN 0
    ELSE First(p, Len(s), {q \in p..Len(s) : s[q] \notin cls}) - p

\* all sequences over S of length at most n
RECURSIVE SeqsUpTo(_, _)
SeqsUpTo(S, n) ==
    IF n = 0 THEN {<<>>}
    ELSE LET shorter == SeqsUpTo(S, n - 1)
         IN  shorter \cup {Append(t, c) : t \in shorter, c \in S}

IsPrefix(p, s) == Len(p) <= Len(s) /\ SubSeq(s, 1, Len(p)) = p

----------------------------------------------------------------------------
(* LineSanitizer: AdvancedLogMonitor.ansi_escape and clean_line *)

\* The position after the match of ansi_escape at position p of s, 0 when the
\* pattern does not match there:  \x1B(?:[@-Z\\-_]|\[[0-?]*[ -/]*[@-~])
\* The first alternative never matches "[", so the alternatives are
\* exclusive on the second character; the two starred classes are disjoint
\* from each other, and a final byte is in neither, except that backtracking
\* is needed when no final byte follows: the starred runs can only give back
\* characters that are no final bytes, so no shorter match exists.
AnsiMatchEnd(s, p) ==
    IF p + 1 > Len(s) \/ s[p] # ESC THEN 0
    ELSE IF s[p + 1] \in EscSecond THEN p + 2
    ELSE IF s[p + 1] # "[" THEN 0
    ELSE LET q == p + 2 + RunLen(s, p + 2, CsiParam)
             r == q + RunLen(s, q, CsiInter)
         IN  IF r <= Len(s) /\ s[r] \in CsiFinal THEN r + 1 ELSE 0

\* ansi_escape.sub('', s): one left-to-right pass, matches do not overlap
RECURSIVE AnsiSubFrom(_, _)
AnsiSubFrom(s, p) ==
    IF p > Len(s) THEN <<>>
    ELSE LET q == First(p, Len(s), {r \in p..Len(s) : AnsiMatchEnd(s, r) # 0})
         IN  IF q > Len(s) THEN SubSeq(s, p, Len(s))
             ELSE Slice(s, p, q - 1) \o AnsiSubFrom(s, AnsiMatchEnd(s, q))

AnsiSub(s) == AnsiSubFrom(s, 1)

\* str.rstrip(): up to the last character that is no whitespace
RStrip(s) ==
    LET keep == {q \in 1..Len(s) : s[q] \notin Whitespace}
    IN  IF keep = {} THEN <<>> ELSE SubSeq(s, 1, Max(keep))

\* str.lstrip(): from the first character that is no whitespace
LStrip(s) == Slice(s, 1 + RunLen(s, 1, Whitespace), Len(s))

Strip(s) == LStrip(RStrip(s))

clean_line(line) == RStrip(AnsiSub(line))

----------------------------------------------------------------------------
(* A regular expression without alternation is a sequence of items, each a *)
(* character class with a least and a greatest number of repetitions; the  *)
(* quantifiers are greedy and backtrack, as in Python's re.                *)

Item(cls, lo, hi) == [cls |-> cls, lo |-> lo, hi |-> hi]

One(cls) == Item(cls, 1, 1)

\* The position after the match of items k.. of pat at position p of s, 0
\* when there is none.  The longest repetition that lets the rest match wins.
RECURSIVE MatchItems(_, _, _, _)
MatchItems(pat, k, s, p) ==
    IF k > Len(pat) THEN p
    ELSE LET it == pat[k]
             run == RunLen(s, p, it.cls)
             top == IF run < it.hi THEN run ELSE it.hi
             ok == {n \in it.lo..top : MatchItems(pat, k + 1, s, p + n) # 0}
         IN  IF ok = {} THEN 0 ELSE MatchItems(pat, k + 1, s, p + Max(ok))

\* The first of the ordered alternatives alts that matches at p: its end, or 0
RECURSIVE MatchAlts(_, _, _, _)
MatchAlts(alts, a, s, p) ==
    IF a > Len(alts) THEN 0
    ELSE LET e == MatchItems(alts[a], 1, s, p)
         IN  IF e # 0 THEN e ELSE MatchAlts(alts, a + 1, s, p)

\* re.search: the leftmost position where an alternative matches, as
\* <<start, end>> with end the position after the match; <<0, 0>> when none
SearchFrom(alts, s, p) ==
    LET q == First(p, Len(s), {r \in p..Len(s) : MatchAlts(alts, 1, s, r) # 0})
    IN  IF q > Len(s) THEN <<0, 0>> ELSE <<q, MatchAlts(alts, 1, s, q)>>

\* re.sub(pattern, '', s) for a pattern that matches no empty string
RECURSIVE SubAllFrom(_, _, _)
SubAllFrom(alts, s, p) ==
    IF p > Len(s) THEN <<>>
    ELSE LET m == SearchFrom(alts, s, p)
         IN  IF m[1] = 0 THEN SubSeq(s, p, Len(s))
             ELSE Slice(s, p, m[1] - 1) \o SubAllFrom(alts, s, m[2])

----------------------------------------------------------------------------
(* TimestampDetector: AdvancedLogMonitor.timestamp_regex, detect_timestamp *)

D2 == Item(Digit, 2, 2)

Clock == <<D2, One({":"}), D2, One({":"}), D2>>

\* \d{2,4}[-/]\d{2}[-/]\d{2}[ T]\d{2}:\d{2}:\d{2}
TsIso == <<Item(Digit, 2, 4), One({"-", "/"}), D2, One({"-", "/"}), D2,
           One({" ", "T"})>> \o Clock

\* the optional (?:,\d+)? is greedy: the alternative with it comes first
TsIsoFraction(n) == TsIso \o <<One({","}), Item(Digit, 1, n)>>

\* \w{3} \d{1,2} \d{2}:\d{2}:\d{2}
TsSyslog == <<Item(WordChar, 3, 3), One({" "}), Item(Digit, 1, 2), One({" "})>>
            \o Clock

\* \d{2}:\d{2}:\d{2}\.\d{3}
TsMillis == Clock \o <<One({"."}), Item(Digit, 3, 3)>>

timestamp_regex(n) == <<TsIsoFraction(n), TsIso, TsSyslog, TsMillis>>

\* The substring of the sanitized line that the first match covers (every
\* alternative is one group, and a match is never empty); <<>> stands for None
detect_timestamp(line) ==
    LET line_clean == clean_line(line)
        m == SearchFrom(timestamp_regex(Len(line_clean)), line_clean, 1)
    IN  IF m[1] = 0 THEN <<>> ELSE SubSeq(line_clean, m[1], m[2] - 1)

----------------------------------------------------------------------------
(* LevelClassifier: COMMON_LOG_LEVELS and detect_log_level *)

\* a variant that lists the keywords by severity
LevelsBySeverity ==
    <<"FATAL", "CRITICAL", "ERROR", "WARNING", "WARN", "INFO", "DEBUG">>

COMMON_LOG_LEVELS ==
    <<"ERROR", "WARN", "WARNING", "INFO", "DEBUG", "CRITICAL", "FATAL">>

\* the characters of a level keyword
LevelChars(level) ==
    CASE level = "ERROR" -> <<"E", "R", "R", "O", "R">>
      [] level = "WARN" -> <<"W", "A", "R", "N">>
      [] level = "WARNING" -> <<"W", "A", "R", "N", "I", "N", "G">>
      [] level = "INFO" -> <<"I", "N", "F", "O">>
      [] level = "DEBUG" -> <<"D", "E", "B", "U", "G">>
      [] level = "CRITICAL" -> <<"C", "R", "I", "T", "I", "C", "A", "L">>
      [] level = "FATAL" -> <<"F", "A", "T", "A", "L">>

UpperSeq == <<"A", "B", "C", "D", "E", "F", "G", "H", "I", "J", "K", "L", "M",
              "N", "O", "P", "Q", "R", "S", "T", "U", "V", "W", "X", "Y", "Z">>

LowerSeq == <<"a", "b", "c", "d", "e", "f", "g", "h", "i", "j", "k", "l", "m",
              "n", "o", "p", "q", "r", "s", "t", "u", "v", "w", "x", "y", "z">>

ToUpper(c) ==
    IF c \in Lower THEN UpperSeq[CHOOSE n \in 1..26 : LowerSeq[n] = c] ELSE c

\* rf'\b{level}\b' with re.IGNORECASE at position p of s: the end of the
\* match or 0.  The keyword begins and ends with a word character, so \b
\* asks for a non-word character, or the end of the string, on either side.
WordMatchEnd(w, s, p) ==
    LET e == p + Len(w)
    IN  IF /\ e - 1 <= Len(s)
           /\ \A n \in 1..Len(w) : ToUpper(s[p + n - 1]) = w[n]
           /\ (p = 1 \/ s[p - 1] \notin WordChar)
           /\ (e > Len(s) \/ s[e] \notin WordChar)
        THEN e ELSE 0

HasWord(w, s) == \E p \in 1..Len(s) : WordMatchEnd(w, s, p) # 0

\* re.sub(rf'\b{level}\b', '', s, flags=re.IGNORECASE)
RECURSIVE SubWordFrom(_, _, _)
SubWordFrom(w, s, p) ==
    IF p > Len(s) THEN <<>>
    ELSE LET q == First(p, Len(s), {r \in p..Len(s) : WordMatchEnd(w, s, r) # 0})
         IN  IF q > Len(s) THEN SubSeq(s, p, Len(s))
             ELSE Slice(s, p, q - 1) \o SubWordFrom(w, s, WordMatchEnd(w, s, q))

RECURSIVE FirstLevelFrom(_, _)
FirstLevelFrom(n, s) ==
    IF n > Len(COMMON_LOG_LEVELS) THEN "UNKNOWN"
    ELSE IF HasWord(LevelChars(COMMON_LOG_LEVELS[n]), s)
         THEN COMMON_LOG_LEVELS[n]
         ELSE FirstLevelFrom(n + 1, s)

detect_log_level(line) == FirstLevelFrom(1, clean_line(line))

----------------------------------------------------------------------------
(* TitleExtractor: AdvancedLogMonitor.extract_clean_title *)

MinTitleLen == 10

MaxTitleLen == 200

TruncatedLen == 197

GenericTitle == <<"E", "r", "r", "o", "r", " ", "d", "e", "t", "e", "c", "t",
                  "e", "d", " ", "i", "n", " ", "l", "o", "g", "s">>

Ellipsis == <<".", ".", ".">>

\* re.sub(r'^...', '', s): the pattern is anchored, so at most the prefix goes
RemovePrefix(pat, s) ==
    LET e == MatchItems(pat, 1, s, 1)
    IN  IF e = 0 THEN s ELSE Slice(s, e, Len(s))

RECURSIVE StripLevelsFrom(_, _)
StripLevelsFrom(n, s) ==
    IF n > Len(COMMON_LOG_LEVELS) THEN s
    ELSE StripLevelsFrom(n + 1,
                         SubWordFrom(LevelChars(COMMON_LOG_LEVELS[n]), s, 1))

\* ^[\[\]\s\-_|]+
LeadingSeparators(n) == <<Item({"[", "]", "-", "_", "|"} \cup Whitespace, 1, n)>>

\* ^[A-Za-z0-9._-]+\s*:
LoggerName(n) ==
    <<Item(Upper \cup Lower \cup Digit \cup {".", "_", "-"}, 1, n),
      Item(Whitespace, 0, n), One({":"})>>

\* ^\s*\d+\s*
LeadingNumber(n) ==
    <<Item(Whitespace, 0, n), Item(Digit, 1, n), Item(Whitespace, 0, n)>>

\* ^\s*[\[\](){}]+\s*
LeadingBrackets(n) ==
    <<Item(Whitespace, 0, n), Item({"[", "]", "(", ")", "{", "}"}, 1, n),
      Item(Whitespace, 0, n)>>

\* the line after the stripping pipeline, before the length rules
TitleResidual(error_line) ==
    LET n == Len(error_line)
        c1 == clean_line(error_line)
        c2 == SubAllFrom(timestamp_regex(n), c1, 1)
        c3 == StripLevelsFrom(1, c2)
        c4 == RemovePrefix(LeadingSeparators(n), c3)
        c5 == RemovePrefix(LoggerName(n), c4)
        c6 == RemovePrefix(LeadingNumber(n), c5)
        c7 == RemovePrefix(LeadingBrackets(n), c6)
    IN  Strip(c7)

\* a variant that cuts at the limit itself and then adds the ellipsis
extract_clean_title_cut_late(error_line) ==
    LET c == TitleResidual(error_line)
    IN  IF Len(c) < MinTitleLen THEN GenericTitle
        ELSE IF Len(c) > MaxTitleLen
             THEN SubSeq(c, 1, MaxTitleLen) \o Ellipsis
             ELSE c

extract_clean_title(error_line) ==
    LET c == TitleResidual(error_line)
    IN  IF Len(c) < MinTitleLen THEN GenericTitle
        ELSE IF Len(c) > MaxTitleLen
             THEN SubSeq(c, 1, TruncatedLen) \o Ellipsis
             ELSE c

----------------------------------------------------------------------------
(* LogTailer: AdvancedLogMonitor.read_new_lines *)

\* open(..., 'r') translates line ends: "\r\n" and a lone "\r" become "\n"
TranslateNewlines(s) ==
    LET marked == [q \in 1..Len(s) |->
                      IF s[q] # "\r" THEN s[q]
                      ELSE IF q < Len(s) /\ s[q + 1] = NL THEN "" ELSE NL]
    IN  SelectSeq(marked, LAMBDA c : c # "")

\* encoding='utf-8', errors='ignore': a lead byte and the continuation byte
\* after it are one character; a lead byte without its continuation and a
\* continuation byte without its lead do not decode and are dropped
Utf8Decode(bytes) ==
    LET marked == [q \in 1..Len(bytes) |->
                      IF bytes[q] = CONT THEN ""
                      ELSE IF bytes[q] # LEAD THEN bytes[q]
                      ELSE IF q < Len(bytes) /\ bytes[q + 1] = CONT THEN U00E9
                      ELSE ""]
    IN  SelectSeq(marked, LAMBDA c : c # "")

Decode(bytes) == TranslateNewlines(Utf8Decode(bytes))

\* f.readlines(): the lines of text, each with its "\n"; the last one has
\* none when the text does not end with one
RECURSIVE SplitLinesFrom(_, _)
SplitLinesFrom(text, p) ==
    IF p > Len(text) THEN <<>>
    ELSE LET q == First(p, Len(text), {r \in p..Len(text) : text[r] = NL})
         IN  IF q > Len(text) THEN <<SubSeq(text, p, Len(text))>>
             ELSE <<SubSeq(text, p, q)>> \o SplitLinesFrom(text, q + 1)

SplitLines(text) == SplitLinesFrom(text, 1)

\* f.seek(self.last_position): the offset reading starts from
SeekOffset(pos) == pos

\* a variant in which tell() gives the end of the file also when the offset
\* sought lies beyond it
TellOffsetAtEnd(f, start) == Len(f)

\* f.tell() after readlines(): the end of the file, or the offset sought
\* when that lies beyond the end
TellOffset(f, start) == IF start > Len(f) THEN start ELSE Len(f)

\* a variant that starts over from the beginning once the file is gone
read_new_lines_rewinding(f, fstate, pos) ==
    IF fstate = "missing"
    THEN [raised |-> FALSE, lines |-> <<>>, last_position |-> 0, read |-> {}]
    ELSE IF fstate = "unreadable"
    THEN [raised |-> TRUE, lines |-> <<>>, last_position |-> pos, read |-> {}]
    ELSE LET start == SeekOffset(pos)
         IN  [raised |-> FALSE,
              lines |-> SplitLines(Decode(Slice(f, start + 1, Len(f)))),
              last_position |-> TellOffset(f, start),
              read |-> (start + 1)..Len(f)]

\* read_new_lines on file f in state fstate with self.last_position = pos:
\* raised (open() fails), otherwise the lines, the new last_position and the
\* set of byte positions read (bytes are numbered from 1)
read_new_lines(f, fstate, pos) ==
    IF fstate = "missing"
    THEN [raised |-> FALSE, lines |-> <<>>, last_position |-> pos, read |-> {}]
    ELSE IF fstate = "unreadable"
    THEN [raised |-> TRUE, lines |-> <<>>, last_position |-> pos, read |-> {}]
    ELSE LET start == SeekOffset(pos)
         IN  [raised |-> FALSE,
              lines |-> SplitLines(Decode(Slice(f, start + 1, Len(f)))),
              last_position |-> TellOffset(f, start),
              read |-> (start + 1)..Len(f)]

\* the concatenation of the strings of a list
RECURSIVE Flatten(_)
Flatten(ss) == IF ss = <<>> THEN <<>> ELSE Head(ss) \o Flatten(Tail(ss))

\* the history of a poll with result r
TailLogAfter(r) ==
    [prev |-> last_position,
     eof |-> Len(file),
     reads |-> [b \in 1..Len(file) |->
                   tail_log.reads[b] + (IF b \in r.read THEN 1 ELSE 0)],
     text |-> tail_log.text \o Flatten(r.lines)]

\* The environment appends chunk to the watched file
AppendToFile(chunk, limit) ==
    /\ file_state = "present"
    /\ appends < limit
    /\ appends' = appends + 1
    /\ file' = file \o chunk
    /\ tail_log' = [tail_log EXCEPT !.reads = @ \o [b \in 1..Len(chunk) |-> 0]]
    /\ UNCHANGED <<file_state, last_position, new_lines>>

\* read_new_lines called on its own
PollOnly ==
    LET r == read_new_lines(file, file_state, last_position)
    IN  /\ ~r.raised
        /\ new_lines' = r.lines
        /\ last_position' = r.last_position
        /\ tail_log' = TailLogAfter(r)
        /\ UNCHANGED <<file, file_state, appends>>

----------------------------------------------------------------------------
(* Initial values *)

PureIdle == arg = <<>> /\ res = <<>>

\* AdvancedLogMonitor.__init__ beside an empty, present file
TailInit ==
    /\ file = <<>>
    /\ file_state = "present"
    /\ appends = 0
    /\ last_position = 0
    /\ new_lines = <<>>
    /\ tail_log = [prev |-> 0, eof |-> 0, reads |-> <<>>, text |-> <<>>]

CounterInit ==
    /\ total_processed = 0
    /\ total_errors = 0
    /\ failed_to_process = 0
    /\ errors_found = 0
    /\ errors_failed_to_insert = 0

NoRecord == [level |-> "", error_line |-> <<>>, error_context |-> <<>>]

NoContent == [title |-> <<>>, description |-> <<>>, llm |-> "none"]

SaveIdle ==
    /\ use_llm = FALSE
    /\ audit = <<>>
    /\ store = <<>>
    /\ cur = NoRecord
    /\ content = NoContent
    /\ reconciled = <<>>

ScanIdle == pc = "idle" /\ i = 0 /\ errors = <<>>

OtherIdle == skipped = <<>> /\ instances = <<>> /\ runs = <<>>

----------------------------------------------------------------------------
(* ErrorBlockExtractor: AdvancedLogMonitor.extract_errors.  lines is the   *)
(* list passed in and i the code's index into it, counted from 0, so that  *)
(* the line at index i is lines[i + 1].                                     *)

\* a wider set of levels, in which WARN opens a block too
TriggerLevelsWithWarn == {"ERROR", "CRITICAL", "FATAL", "WARN"}

\* the levels whose lines open a block
TriggerLevels == {"ERROR", "CRITICAL", "FATAL"}

\* '\n'.join(parts)
RECURSIVE Join(_)
Join(parts) ==
    IF parts = <<>> THEN <<>>
    ELSE IF Len(parts) = 1 THEN parts[1]
    ELSE parts[1] \o <<NL>> \o Join(Tail(parts))

\* a loop that would stop at a line of one of these levels as well
BlockStopAtLevel(lines, start) ==
    First(start + 2, Len(lines),
          {k \in 1..Len(lines) :
              \/ detect_timestamp(lines[k]) # <<>>
              \/ detect_log_level(lines[k]) \in TriggerLevels}) - 1

\* The value of i when the inner while loop ends, the block having opened at
\* index start: the loop passes every line without a timestamp
BlockStop(lines, start) ==
    First(start + 2, Len(lines),
          {k \in 1..Len(lines) : detect_timestamp(lines[k]) # <<>>}) - 1

\* a record that would take the last line of the block as its error_line
MakeRecordLast(level, context_lines) ==
    [level |-> level,
     error_line |-> context_lines[Len(context_lines)],
     error_context |-> Join(context_lines)]

\* error_record, without the two fields that depend on the clock and on the
\* path of the file
MakeRecord(level, context_lines) ==
    [level |-> level,
     error_line |-> context_lines[1],
     error_context |-> Join(context_lines)]

\* a line whose level opens no block: i += 1
ScanLine ==
    /\ pc = "scan"
    /\ i < Len(new_lines)
    /\ detect_log_level(new_lines[i + 1]) \notin TriggerLevels
    /\ i' = i + 1
    /\ UNCHANGED <<pc, errors, pureVars, otherVars, tailVars, counterVars, saveVars>>

\* a line whose level opens a block: the block is collected up to the next
\* line with a timestamp, the record is appended and save_error is entered
ScanBlock ==
    /\ pc = "scan"
    /\ i < Len(new_lines)
    /\ detect_log_level(new_lines[i + 1]) \in TriggerLevels
    /\ LET stop == BlockStop(new_lines, i)
           context_lines == [k \in 1..(stop - i) |-> clean_line(new_lines[i + k])]
           error_record == MakeRecord(detect_log_level(new_lines[i + 1]),
                                      context_lines)
       IN  /\ i' = stop
           /\ errors' = Append(errors, error_record)
           /\ cur' = error_record
    /\ errors_found' = errors_found + 1
    /\ pc' = "save_audit"
    /\ UNCHANGED <<pureVars, otherVars, tailVars, total_processed, total_errors,
                   failed_to_process, errors_failed_to_insert,
                   use_llm, audit, store, content, reconciled>>

\* print(f"Context:\n{context_lines[0]}") may raise (UnicodeEncodeError)
\* when the line holds a character that the encoding of stdout lacks.  The
\* block has been collected and i stands behind it; the record is not yet
\* appended.  The handler of the loop counts the failure and adds 1 to i.
ScanBlockRaises ==
    /\ pc = "scan"
    /\ i < Len(new_lines)
    /\ detect_log_level(new_lines[i + 1]) \in TriggerLevels
    /\ \E q \in 1..Len(new_lines[i + 1]) : new_lines[i + 1][q] = U00E9
    /\ LET stop == BlockStop(new_lines, i)
       IN  /\ i' = stop + 1
           /\ skipped' = Append(skipped, [at |-> i, behind |-> stop,
                                          resumed |-> stop + 1])
    /\ failed_to_process' = failed_to_process + 1
    /\ UNCHANGED <<pc, errors, pureVars, instances, runs, tailVars, saveVars,
                   total_processed, total_errors, errors_found,
                   errors_failed_to_insert>>

\* the outer while loop ends: return errors
ExtractReturn ==
    /\ pc = "scan"
    /\ i >= Len(new_lines)
    /\ pc' = "returned"
    /\ UNCHANGED <<i, errors, pureVars, otherVars, tailVars, counterVars, saveVars>>

----------------------------------------------------------------------------
(* TicketGenerator (agents/llm/ticket_generator.py).  A call of the model  *)
(* either throws or returns a text.                                         *)

LlmMaxTitleLen == 200

ToLower(c) ==
    IF c \in Upper THEN LowerSeq[CHOOSE n \in 1..26 : UpperSeq[n] = c] ELSE c

LowerCase(s) == [q \in 1..Len(s) |-> ToLower(s[q])]

\* sub in s
Contains(sub, s) ==
    \E p \in 1..(Len(s) - Len(sub) + 1) : SubSeq(s, p, p + Len(sub) - 1) = sub

\* error_log.strip().split('\n')[0]
FirstLine(error_log) ==
    LET t == Strip(error_log)
    IN  Slice(t, 1, First(1, Len(t), {q \in 1..Len(t) : t[q] = NL}) - 1)

_fallback_title_generation(error_log, log_level) ==
    LET first_line == LowerCase(FirstLine(error_log))
        kind ==
            IF Contains(<<"t", "i", "m", "e", "o", "u", "t">>, first_line)
            THEN <<"T", "i", "m", "e", "o", "u", "t", " ", "e", "r", "r", "o",
                   "r", " ", "d", "e", "t", "e", "c", "t", "e", "d", " ", "(">>
            ELSE IF Contains(<<"c", "o", "n", "n", "e", "c", "t", "i", "o",
                               "n">>, first_line)
            THEN <<"C", "o", "n", "n", "e", "c", "t", "i", "o", "n", " ", "e",
                   "r", "r", "o", "r", " ", "d", "e", "t", "e", "c", "t", "e",
                   "d", " ", "(">>
            ELSE IF Contains(<<"m", "e", "m", "o", "r", "y">>, first_line)
            THEN <<"M", "e", "m", "o", "r", "y", "-", "r", "e", "l", "a", "t",
                   "e", "d", " ", "e", "r", "r", "o", "r", " ", "d", "e", "t",
                   "e", "c", "t", "e", "d", " ", "(">>
            ELSE IF Contains(<<"d", "a", "t", "a", "b", "a", "s", "e">>, first_line)
            THEN <<"D", "a", "t", "a", "b", "a", "s", "e", " ", "e", "r", "r",
                   "o", "r", " ", "d", "e", "t", "e", "c", "t", "e", "d", " ",
                   "(">>
            ELSE IF \/ Contains(<<"a", "u", "t", "h", "e", "n", "t", "i", "c",
                                  "a", "t", "i", "o", "n">>, first_line)
                    \/ Contains(<<"a", "u", "t", "h">>, first_line)
            THEN <<"A", "u", "t", "h", "e", "n", "t", "i", "c", "a", "t", "i",
                   "o", "n", " ", "e", "r", "r", "o", "r", " ", "d", "e", "t",
                   "e", "c", "t", "e", "d", " ", "(">>
            ELSE IF \/ Contains(<<"p", "e", "r", "m", "i", "s", "s", "i", "o",
                                  "n">>, first_line)
                    \/ Contains(<<"a", "c", "c", "e", "s", "s">>, first_line)
            THEN <<"P", "e", "r", "m", "i", "s", "s", "i", "o", "n", "/", "a",
                   "c", "c", "e", "s", "s", " ", "e", "r", "r", "o", "r", " ",
                   "d", "e", "t", "e", "c", "t", "e", "d", " ", "(">>
            ELSE <<"E", "r", "r", "o", "r", " ", "d", "e", "t", "e", "c", "t",
                   "e", "d", " ", "i", "n", " ", "l", "o", "g", "s", " ", "(">>
    IN  kind \o LevelChars(log_level) \o <<")">>

\* The template of the fallback description.  Its fixed text is kept as
\* three pieces, each one symbol; the timestamp and the source it also
\* shows are left out, as they are left out of the record.
_fallback_description_generation(error_log, log_level) ==
    <<"**Error Summary** A ">> \o LevelChars(log_level)
        \o <<" level error was detected in the system. **Error Details**: ">>
        \o error_log
        \o <<" **Next Steps**: ... **Priority**: ">>
        \o (IF log_level \in {"CRITICAL", "FATAL"}
            THEN <<"H", "i", "g", "h">> ELSE <<"M", "e", "d", "i", "u", "m">>)

generate_ticket_title(response, error_log, log_level) ==
    IF response.throws THEN _fallback_title_generation(error_log, log_level)
    ELSE LET title == Strip(response.content)
         IN  IF Len(title) > LlmMaxTitleLen \/ title = <<>>
             THEN _fallback_title_generation(error_log, log_level)
             ELSE title

generate_ticket_description(response, error_log, log_level) ==
    IF response.throws
    THEN _fallback_description_generation(error_log, log_level)
    ELSE LET description == Strip(response.content)
         IN  IF description = <<>>
             THEN _fallback_description_generation(error_log, log_level)
             ELSE description

\* TicketGenerator.generate_ticket_content: both methods catch every
\* exception of the model call, so nothing is raised here
TicketGenerator_generate_ticket_content(title_r, description_r, log, level) ==
    [raised |-> FALSE,
     title |-> generate_ticket_title(title_r, log, level),
     description |-> generate_ticket_description(description_r, log, level)]

\* AdvancedLogMonitor.generate_ticket_content
generate_ticket_content(error_record, llm_on, title_r, description_r) ==
    LET regex == [title |-> extract_clean_title(error_record.error_line),
                  description |-> error_record.error_context]
        made == TicketGenerator_generate_ticket_content(
                    title_r, description_r,
                    error_record.error_context, error_record.level)
    IN  IF ~llm_on \/ made.raised THEN regex
        ELSE [title |-> made.title, description |-> made.description]

\* what the model may answer when asked for a title: a usable title with
\* blanks around it, nothing, blanks only, or a text of 201 characters
LlmTitle == <<"D", "a", "t", "a", "b", "a", "s", "e", " ", "c", "o", "n", "n",
              "e", "c", "t", "i", "o", "n", " ", "r", "e", "f", "u", "s", "e",
              "d", " ", "b", "y", " ", "h", "o", "s", "t">>

LlmTitleTexts ==
    {<<" ">> \o LlmTitle \o <<NL>>, <<>>, <<" ", " ">>,
     [q \in 1..(LlmMaxTitleLen + 1) |-> "a"]}

LlmDescription == <<"The application failed to connect to the database.">>

LlmDescriptionTexts == {LlmDescription \o <<NL>>, <<>>, <<" ", NL>>}

Throws == [throws |-> TRUE, content |-> <<>>]

Returns(text) == [throws |-> FALSE, content |-> text]

\* how the call for the title went, for the properties
TitleCallOutcome(response) ==
    IF response.throws THEN "throws"
    ELSE IF Strip(response.content) = <<>> THEN "empty"
    ELSE IF Len(Strip(response.content)) > LlmMaxTitleLen THEN "overlong"
    ELSE "ok"

----------------------------------------------------------------------------
(* IssueStore: the issues table, the schemas of api/schemas/schema.py, the *)
(* statements of api/config/queries.py and IssueService.  A row, a schema  *)
(* object and a dictionary of parameters are functions on field names;     *)
(* Python's None is the string "None".                                      *)

None == "None"

\* f updated and extended by g: {**f, **g}
Merge(f, g) ==
    [k \in DOMAIN f \cup DOMAIN g |-> IF k \in DOMAIN g THEN g[k] ELSE f[k]]

\* the fields IssueBase declares, with the defaults of those that have one
IssueBaseFields ==
    {"title", "description", "analysis", "application_type", "occurrence",
     "status", "severity", "error_type"}

IssueBaseDefaults ==
    [description |-> None, analysis |-> None, application_type |-> None,
     occurrence |-> 0, status |-> "open", error_type |-> None]

\* IssueCreate(**kwargs): a keyword that names no declared field is ignored
IssueCreate(kwargs) ==
    [f \in IssueBaseFields |->
        IF f \in DOMAIN kwargs THEN kwargs[f] ELSE IssueBaseDefaults[f]]

\* the fields IssueUpdate declares, every one of them defaulting to None
IssueUpdateFields ==
    {"title", "description", "analysis", "application_type", "occurrence",
     "status", "severity", "error_type"}

\* IssueUpdate(**kwargs)
IssueUpdate(kwargs) ==
    [f \in IssueUpdateFields |->
        IF f \in DOMAIN kwargs THEN kwargs[f] ELSE None]

model_dump(request) == request

\* the columns CREATE_ISSUE fills from bind parameters
CreateBinds ==
    {"id", "title", "description", "analysis", "issue_logs",
     "application_type", "occurrence", "status", "severity", "error_type"}

\* the bind parameters of UPDATE_ISSUE
UpdateBinds == {"occurrence", "issue_logs", "updated_at", "issue_id"}

\* conn.execute(text(sql), params) raises when a bind parameter of the
\* statement has no value in params
Executes(binds, params) == binds \subseteq DOMAIN params

\* the rows of st with this id / with this title
RowsById(st, issue_id) == {n \in 1..Len(st) : st[n].id = issue_id}

RowsByTitle(st, title) == {n \in 1..Len(st) : st[n].title = title}

\* IssueService.get_issue_by_title: the row whose title is exactly this
\* one (GET_ISSUE_BY_TITLE through execute_select_one, which returns the
\* first row), as a list of one row, empty for None
get_issue_by_title(st, title) ==
    IF RowsByTitle(st, title) = {} THEN <<>>
    ELSE <<st[Min(RowsByTitle(st, title))]>>

\* IssueService.create_issue: whether it raised, and the table afterwards
create_issue(st, request) ==
    LET params == Merge(model_dump(request),
                        [created_at |-> "now", updated_at |-> "now"])
    IN  IF ~Executes(CreateBinds, params)
        THEN [raised |-> TRUE, store |-> st]
        ELSE [raised |-> FALSE,
              store |-> Append(st, [c \in CreateBinds |-> params[c]])]

\* IssueService.update_issue: whether it raised, and the table afterwards
update_issue(st, issue_id, request) ==
    LET params == Merge(model_dump(request),
                        [updated_at |-> "now", issue_id |-> issue_id])
    IN  IF RowsById(st, issue_id) = {} \/ ~Executes(UpdateBinds, params)
        THEN [raised |-> TRUE, store |-> st]
        ELSE [raised |-> FALSE,
              store |-> [n \in 1..Len(st) |->
                            IF st[n].id # issue_id THEN st[n]
                            ELSE [st[n] EXCEPT
                                     !.occurrence = params.occurrence,
                                     !.issue_logs = params.issue_logs]]]

----------------------------------------------------------------------------
(* IssueReconciler: AdvancedLogMonitor.save_error, in three steps *)

\* a variant that writes the new record alone
AuditRewritten(data, error_record) == <<error_record>>

\* data = json.loads(...); data.append(error_record); json.dumps(data)
AuditAppended(data, error_record) == Append(data, error_record)

\* the audit file is read, extended and written back
SaveAudit ==
    /\ pc = "save_audit"
    /\ audit' = AuditAppended(audit, cur)
    /\ pc' = "save_content"
    /\ UNCHANGED <<i, errors, pureVars, otherVars, tailVars, counterVars,
                   use_llm, store, cur, content, reconciled>>

\* what the calls of the model for one record may give: with the generator
\* off the model is not called, and one answer that nobody reads stands for
\* that
TitleResponses(llm_on) ==
    IF llm_on THEN {Throws} \cup {Returns(t) : t \in LlmTitleTexts}
    ELSE {Throws}

DescriptionResponses(llm_on) ==
    IF llm_on THEN {Throws} \cup {Returns(t) : t \in LlmDescriptionTexts}
    ELSE {Throws}

\* title, description = self.generate_ticket_content(error_record)
SaveContent ==
    /\ pc = "save_content"
    /\ \E title_r \in TitleResponses(use_llm),
          description_r \in DescriptionResponses(use_llm) :
          content' =
              Merge(generate_ticket_content(cur, use_llm, title_r,
                                            description_r),
                    [llm |-> IF use_llm THEN TitleCallOutcome(title_r)
                             ELSE "none"])
    /\ pc' = "save_store"
    /\ UNCHANGED <<i, errors, pureVars, otherVars, tailVars, counterVars,
                   use_llm, audit, store, cur, reconciled>>

\* What follows the lookup: the update of the issue found or the creation
\* of a new one.  found is the result of the lookup as a list of at most
\* one row.
ReconcileWrite(st, found, error_record, title, description) ==
    LET existing_issue == found[1]
    IN  IF found # <<>>
        THEN LET issue_update ==
                     IssueUpdate(
                         [occurrence |-> existing_issue.occurrence + 1,
                          issue_logs |-> Append(existing_issue.issue_logs,
                                                error_record.error_context)])
                 done == update_issue(st, existing_issue.id, issue_update)
             IN  [store |-> done.store, raised |-> done.raised,
                  branch |-> "update"]
        ELSE LET issue_create ==
                     IssueCreate(
                         [title |-> title,
                          description |-> description,
                          severity |-> IF error_record.level
                                          \in {"ERROR", "CRITICAL", "FATAL"}
                                       THEN "high" ELSE "medium",
                          error_type |-> "general",
                          application_type |-> "Test",
                          occurrence |-> 1,
                          issue_logs |-> <<error_record.error_context>>])
                 done == create_issue(st, issue_create)
             IN  [store |-> done.store, raised |-> done.raised,
                  branch |-> "create"]

\* The lookup and the update or the creation, with the database reachable
\* (db_up) or not: the table afterwards, whether an exception reached the
\* handler of save_error, and which branch was taken
Reconcile(st, error_record, title, description, db_up) ==
    IF ~db_up
    THEN [store |-> st, raised |-> TRUE, branch |-> "lookup"]
    ELSE ReconcileWrite(st, get_issue_by_title(st, title), error_record,
                        title, description)

\* a variant without the handler: the exception of the store call leaves
\* save_error, extract_errors and monitor
SaveStoreUncaught ==
    /\ pc = "save_store"
    /\ \E db_up \in BOOLEAN :
          LET done == Reconcile(store, cur, content.title,
                                content.description, db_up)
          IN  /\ store' = done.store
              /\ pc' = IF done.raised THEN "crashed" ELSE "scan"
              /\ reconciled' =
                     Append(reconciled,
                            [record |-> cur, content |-> content,
                             db_up |-> db_up, branch |-> done.branch,
                             raised |-> done.raised,
                             before |-> store, after |-> done.store])
    /\ UNCHANGED <<i, errors, pureVars, otherVars, tailVars, counterVars,
                   use_llm, audit, cur, content>>

\* the rest of save_error; an exception is counted and goes no further
SaveStore ==
    /\ pc = "save_store"
    /\ \E db_up \in BOOLEAN :
          LET done == Reconcile(store, cur, content.title,
                                content.description, db_up)
          IN  /\ store' = done.store
              /\ errors_failed_to_insert' =
                     errors_failed_to_insert + (IF done.raised THEN 1 ELSE 0)
              /\ reconciled' =
                     Append(reconciled,
                            [record |-> cur, content |-> content,
                             db_up |-> db_up, branch |-> done.branch,
                             raised |-> done.raised,
                             before |-> store, after |-> done.store])
    /\ pc' = "scan"
    /\ UNCHANGED <<i, errors, pureVars, otherVars, tailVars, total_processed,
                   total_errors, failed_to_process, errors_found,
                   use_llm, audit, cur, content>>

----------------------------------------------------------------------------
(* AdvancedLogMonitor.monitor *)

\* new_lines = self.read_new_lines(), and the test of new_lines.  An
\* exception of open() is caught nowhere and ends monitor().
Poll ==
    /\ pc = "poll"
    /\ LET r == read_new_lines(file, file_state, last_position)
       IN  IF r.raised
           THEN /\ pc' = "crashed"
                /\ UNCHANGED <<new_lines, last_position, tail_log,
                               total_processed, i, errors>>
           ELSE /\ new_lines' = r.lines
                /\ last_position' = r.last_position
                /\ tail_log' = TailLogAfter(r)
                /\ IF r.lines # <<>>
                   THEN /\ total_processed' = total_processed + Len(r.lines)
                        /\ i' = 0
                        /\ errors' = <<>>
                        /\ pc' = "scan"
                   ELSE /\ pc' = "sleep"
                        /\ UNCHANGED <<total_processed, i, errors>>
    /\ UNCHANGED <<file, file_state, appends, pureVars, otherVars, saveVars,
                   total_errors, failed_to_process, errors_found,
                   errors_failed_to_insert>>

\* a variant that keeps the number of errors of the last cycle only
CountErrorsOfLastCycle ==
    /\ pc = "returned"
    /\ total_errors' = Len(errors)
    /\ pc' = "sleep"
    /\ UNCHANGED <<i, errors, pureVars, otherVars, tailVars, saveVars, total_processed,
                   failed_to_process, errors_found, errors_failed_to_insert>>

\* self.total_errors += len(errors)
CountErrors ==
    /\ pc = "returned"
    /\ total_errors' = total_errors + Len(errors)
    /\ pc' = "sleep"
    /\ UNCHANGED <<i, errors, pureVars, otherVars, tailVars, saveVars, total_processed,
                   failed_to_process, errors_found, errors_failed_to_insert>>

\* time.sleep(interval) returns
Sleep ==
    /\ pc = "sleep"
    /\ pc' = "poll"
    /\ UNCHANGED <<i, errors, pureVars, otherVars, tailVars, counterVars, saveVars>>

\* KeyboardInterrupt is raised wherever the loop stands; no handler on the
\* way catches it but the one of monitor()
Interrupt ==
    /\ pc \notin {"stopped", "crashed", "idle"}
    /\ pc' = "stopped"
    /\ UNCHANGED <<i, errors, pureVars, otherVars, tailVars, counterVars, saveVars>>

\* The environment takes the file away, brings it back, or denies reading
\* it.  What the environment does while a cycle runs is seen at the next
\* poll only, so it acts when the monitor is about to poll.
SetFileState(fstate) ==
    /\ pc = "poll"
    /\ file_state # fstate
    /\ file_state' = fstate
    /\ UNCHANGED <<file, appends, last_position, new_lines, tail_log,
                   pureVars, otherVars, counterVars, saveVars, scanVars>>

WriteLog(chunk, limit) ==
    /\ pc = "poll"
    /\ AppendToFile(chunk, limit)
    /\ UNCHANGED <<pureVars, otherVars, counterVars, saveVars, scanVars>>

----------------------------------------------------------------------------
(* extract_errors on every short batch of lines: lines with and without a  *)
(* timestamp, of every kind of level, with colour codes and trailing       *)
(* blanks, as readlines() returns them                                      *)

MaxBatch == 3

SampleLines ==
    {<<"I", "N", "F", "O", " ", "o", "k", NL>>,
     <<"E", "R", "R", "O", "R", " ", "b", "o", "o", "m", NL>>,
     <<" ", " ", "a", "t", " ", "f", "r", "a", "m", "e", " ", "1", NL>>,
     <<"1", "2", ":", "0", "0", ":", "0", "1", ".", "0", "0", "0", " ", "I",
       "N", "F", "O", " ", "n", "e", "x", "t", NL>>,
     <<"1", "2", ":", "0", "0", ":", "0", "2", ".", "0", "0", "0", " ", "E",
       "R", "R", "O", "R", " ", "b", "o", "o", "m", NL>>,
     <<"F", "A", "T", "A", "L", " ", "W", "A", "R", "N", " ", "x", NL>>,
     <<ESC, "[", "3", "1", "m">> \o <<"C", "R", "I", "T", "I", "C", "A", "L">> \o <<ESC, "[", "0", "m">>
         \o <<" ", "d", "i", "s", "k", " ", " ", NL>>}

ExtractInit ==
    /\ PureIdle
    /\ file = <<>>
    /\ file_state = "present"
    /\ appends = 0
    /\ last_position = 0
    /\ tail_log = [prev |-> 0, eof |-> 0, reads |-> <<>>, text |-> <<>>]
    /\ new_lines \in SeqsUpTo(SampleLines, MaxBatch)
    /\ CounterInit
    /\ SaveIdle
    /\ OtherIdle
    /\ pc = "scan"
    /\ i = 0
    /\ errors = <<>>

ExtractNext ==
    \/ ScanLine
    \/ ScanBlock
    \/ ExtractReturn
    \/ SaveAudit
    \/ SaveContent
    \/ SaveStore

SpecExtract == ExtractInit /\ [][ExtractNext]_vars

\* the three levels that are escalated to records
EscalationLevels == {"ERROR", "CRITICAL", "FATAL"}

HasTimestamp(lines, k) == detect_timestamp(lines[k]) # <<>>

\* line k opens a block: it is classified ERROR, CRITICAL or FATAL and no
\* earlier such line reaches it through lines without a timestamp
OpensBlock(lines, k) ==
    /\ detect_log_level(lines[k]) \in EscalationLevels
    /\ ~\E j \in 1..(k - 1) :
           /\ detect_log_level(lines[j]) \in EscalationLevels
           /\ \A m \in (j + 1)..k : ~HasTimestamp(lines, m)

\* the last line of the block that line k opens
LastOfBlock(lines, k) ==
    Max({e \in k..Len(lines) : \A m \in (k + 1)..e : ~HasTimestamp(lines, m)})

\* the sanitized lines k..e joined by newlines
ContextOf(lines, k, e) ==
    Join([n \in 1..(e - k + 1) |-> clean_line(lines[k + n - 1])])

\* the records of the blocks that open at or after line k, in input order
RECURSIVE RecordsFrom(_, _)
RecordsFrom(lines, k) ==
    IF k > Len(lines) THEN <<>>
    ELSE IF ~OpensBlock(lines, k) THEN RecordsFrom(lines, k + 1)
    ELSE <<[level |-> detect_log_level(lines[k]),
            error_line |-> clean_line(lines[k]),
            error_context |-> ContextOf(lines, k, LastOfBlock(lines, k))]>>
         \o RecordsFrom(lines, k + 1)

C8_OnlyEscalationLevels ==
    \A n \in 1..Len(errors) :
        /\ errors[n].level \in EscalationLevels
        /\ \E k \in 1..Len(new_lines) :
               /\ detect_log_level(new_lines[k]) = errors[n].level
               /\ clean_line(new_lines[k]) = errors[n].error_line

\* a batch holding a line classified WARN (though it names FATAL too) and a
\* line classified CRITICAL has been scanned, and only the second gave a
\* record
C8_Witness ==
    /\ pc = "returned"
    /\ \E k \in 1..Len(new_lines) : detect_log_level(new_lines[k]) = "WARN"
    /\ Len(errors) = 1
    /\ errors[1].level = "CRITICAL"

\* C9: the context of every record begins with its error_line, as its first
\* line: the error_line holds no newline and the context continues, if at
\* all, with a newline
C9_ContextStartsWithErrorLine ==
    \A n \in 1..Len(errors) :
        LET line == errors[n].error_line
            context == errors[n].error_context
        IN  /\ IsPrefix(line, context)
            /\ \A p \in 1..Len(line) : line[p] # NL
            /\ Len(context) > Len(line) => context[Len(line) + 1] = NL

\* a record of several lines whose first line lost colour codes and
\* trailing blanks when it was sanitized
C9_Witness ==
    /\ Len(errors) >= 1
    /\ Len(errors[1].error_context) > Len(errors[1].error_line)
    /\ \E k \in 1..Len(new_lines) :
           /\ clean_line(new_lines[k]) = errors[1].error_line
           /\ Len(new_lines[k]) > Len(errors[1].error_line) + 1

----------------------------------------------------------------------------
(* The monitor beside a log that grows, goes away and comes back, with the *)
(* model answering or failing and the database reachable or not            *)

MaxAppends == 2

LogChunks ==
    {<<"E", "R", "R", "O", "R", " ", "d", "a", "t", "a", "b", "a", "s", "e",
       " ", "c", "o", "n", "n", "e", "c", "t", "i", "o", "n", " ", "r", "e",
       "f", "u", "s", "e", "d", NL>>,
     <<"1", "2", ":", "0", "0", ":", "0", "1", ".", "0", "0", "0", " ", "E",
       "R", "R", "O", "R", " ", "d", "a", "t", "a", "b", "a", "s", "e", " ",
       "c", "o", "n", "n", "e", "c", "t", "i", "o", "n", " ", "r", "e", "f",
       "u", "s", "e", "d", NL>>,
     <<" ", " ", "a", "t", " ", "f", "r", "a", "m", "e", " ", "1", NL>>,
     <<"I", "N", "F", "O", " ", "o", "k", NL>>}

\* an issue that an earlier run left in the table
KnownIssue ==
    [id |-> 1,
     title |-> <<"d", "a", "t", "a", "b", "a", "s", "e", " ", "c", "o", "n",
                 "n", "e", "c", "t", "i", "o", "n", " ", "r", "e", "f", "u",
                 "s", "e", "d">>,
     description |-> <<"s", "e", "e", "n", " ", "b", "e", "f", "o", "r", "e">>,
     analysis |-> None,
     issue_logs |-> <<<<"E", "R", "R", "O", "R", " ", "d", "a", "t", "a", "b",
                        "a", "s", "e", " ", "c", "o", "n", "n", "e", "c", "t",
                        "i", "o", "n", " ", "r", "e", "f", "u", "s", "e", "d">>>>,
     application_type |-> "Test",
     occurrence |-> 1,
     status |-> "open",
     severity |-> "high",
     error_type |-> "general"]

Init ==
    /\ PureIdle
    /\ TailInit
    /\ CounterInit
    /\ OtherIdle
    /\ use_llm \in BOOLEAN
    /\ store \in {<<>>, <<KnownIssue>>}
    /\ audit = <<>>
    /\ cur = NoRecord
    /\ content = NoContent
    /\ reconciled = <<>>
    /\ pc = "poll"
    /\ i = 0
    /\ errors = <<>>

Next ==
    \/ \E chunk \in LogChunks : WriteLog(chunk, MaxAppends)
    \/ \E fstate \in {"present", "missing", "unreadable"} : SetFileState(fstate)
    \/ Poll
    \/ ScanLine
    \/ ScanBlock
    \/ ExtractReturn
    \/ SaveAudit
    \/ SaveContent
    \/ SaveStore
    \/ CountErrors
    \/ Sleep
    \/ Interrupt

Spec == Init /\ [][Next]_vars

\* C2: two records with the same title reconciled one after the other, the
\* table empty at first and the database reachable: the first is created,
\* the second updates that issue, which then has occurrence 2 and the two
\* contexts, in order, as its logs
C2_CreatedThenUpdated ==
    (/\ Len(reconciled) >= 2
     /\ reconciled[1].before = <<>>
     /\ reconciled[1].db_up /\ reconciled[2].db_up
     /\ reconciled[1].content.title = reconciled[2].content.title)
    => /\ reconciled[1].branch = "create" /\ ~reconciled[1].raised
       /\ reconciled[2].branch = "update" /\ ~reconciled[2].raised
       /\ Len(reconciled[2].after) = 1
       /\ reconciled[2].after[1].title = reconciled[1].content.title
       /\ reconciled[2].after[1].occurrence = 2
       /\ reconciled[2].after[1].issue_logs =
              <<reconciled[1].record.error_context,
                reconciled[2].record.error_context>>

\* C4: a record whose title an issue of the table has, the database
\* reachable: afterwards that issue has one occurrence more and the context
\* at the end of its logs, its title and its description are as before, and
\* so is every other issue
C4_UpdateOnlyOccurrenceAndLogs ==
    \A n \in 1..Len(reconciled) :
        LET r == reconciled[n]
            hits == RowsByTitle(r.before, r.content.title)
        IN  (r.db_up /\ hits # {}) =>
                /\ Len(r.after) = Len(r.before)
                /\ \A k \in 1..Len(r.before) :
                       IF k # Min(hits) THEN r.after[k] = r.before[k]
                       ELSE /\ r.after[k].title = r.before[k].title
                            /\ r.after[k].description = r.before[k].description
                            /\ r.after[k].occurrence =
                                   r.before[k].occurrence + 1
                            /\ r.after[k].issue_logs =
                                   Append(r.before[k].issue_logs,
                                          r.record.error_context)

\* C5: a record whose title no issue of the table has, the database
\* reachable: afterwards the table has one issue more, with that title,
\* occurrence 1, the context as its only log, severity high for ERROR,
\* CRITICAL and FATAL and medium otherwise, and error_type general
C5_CreateNewIssue ==
    \A n \in 1..Len(reconciled) :
        LET r == reconciled[n]
        IN  (r.db_up /\ RowsByTitle(r.before, r.content.title) = {}) =>
                /\ ~r.raised
                /\ Len(r.after) = Len(r.before) + 1
                /\ SubSeq(r.after, 1, Len(r.before)) = r.before
                /\ r.after[Len(r.after)].title = r.content.title
                /\ r.after[Len(r.after)].occurrence = 1
                /\ r.after[Len(r.after)].issue_logs =
                       <<r.record.error_context>>
                /\ r.after[Len(r.after)].severity =
                       (IF r.record.level \in {"ERROR", "CRITICAL", "FATAL"}
                        THEN "high" ELSE "medium")
                /\ r.after[Len(r.after)].error_type = "general"

\* C6: the polling loop ends on an interrupt only: no failure of a line, of
\* the table, of the generation of the content or of the watched file ends
\* it
C6_OnlyInterruptEndsLoop == pc # "crashed"

\* C7: with the generator on and its call for the title throwing or
\* returning nothing or more than 200 characters, the title reconciled is
\* extract_clean_title of the error line and the description is the context
C7_FallsBackToHeuristic ==
    (pc = "save_store" /\ content.llm \in {"throws", "empty", "overlong"})
    => /\ content.title = extract_clean_title(cur.error_line)
       /\ content.description = cur.error_context

----------------------------------------------------------------------------
(* The tailer alone: single bytes are appended and read_new_lines is      *)
(* called at any time, so that a poll finds partial lines, line ends and   *)
(* undecodable bytes at every offset                                        *)

MaxTailBytes == 4

TailBytes == {<<"a">>, <<NL>>, <<LEAD>>, <<CONT>>, <<"\r">>}

TailOnlyInit ==
    PureIdle /\ TailInit /\ CounterInit /\ SaveIdle /\ ScanIdle /\ OtherIdle

TailOnlyNext ==
    \/ /\ \E chunk \in TailBytes : AppendToFile(chunk, MaxTailBytes)
       /\ UNCHANGED <<pureVars, otherVars, counterVars, saveVars, scanVars>>
    \/ /\ PollOnly
       /\ UNCHANGED <<pureVars, otherVars, counterVars, saveVars, scanVars>>

SpecTail == TailOnlyInit /\ [][TailOnlyNext]_vars

\* The offsets are exact: every byte below the recorded offset has been read
\* by exactly one poll and no byte above it by any, and the last poll
\* returned the lines decoded from the bytes between the offset it found
\* and the end of the file it found
TailReadsEachByteOnce ==
    /\ \A b \in 1..Len(file) :
           tail_log.reads[b] = (IF b <= last_position THEN 1 ELSE 0)
    /\ last_position = tail_log.eof
    /\ tail_log.prev <= last_position /\ last_position <= Len(file)
    /\ new_lines =
           SplitLines(Decode(Slice(file, tail_log.prev + 1, last_position)))

\* C3: on a file that only grows by appends, every appended byte is returned
\* by exactly one poll, none skipped and none twice: what the polls have
\* returned so far, put end to end, is the text of the file up to the
\* recorded offset
C3_EveryByteReturnedOnce ==
    tail_log.text = Decode(Slice(file, 1, last_position))

----------------------------------------------------------------------------
(* Sanitizer under test: clean_line applied to every short line over the   *)
(* characters that decide the ANSI pattern, then applied to its own result *)

MaxSanLen == 4

SanAlphabet == {ESC, "[", "0", "m", "M", " "}

SanInit ==
    /\ arg \in SeqsUpTo(SanAlphabet, MaxSanLen)
    /\ res = <<>>
    /\ TailInit /\ CounterInit /\ SaveIdle /\ ScanIdle /\ OtherIdle

ApplyCleanLine ==
    /\ Len(res) < 2
    /\ res' = Append(res, clean_line(IF res = <<>> THEN arg ELSE res[Len(res)]))
    /\ UNCHANGED <<arg, otherVars, tailVars, counterVars, saveVars, scanVars>>

SanNext == ApplyCleanLine

SpecSanitize == SanInit /\ [][SanNext]_vars

\* C10: for every line l, sanitize(sanitize(l)) = sanitize(l)
C10_Idempotent == Len(res) = 2 => res[2] = res[1]

----------------------------------------------------------------------------
(* Title extraction under test: extract_clean_title applied to lines whose *)
(* residual is shorter than, at and beyond both length limits              *)

MaxShortTitle == 12

MaxLongTitle == 206

\* n characters of text, a blank at every seventh place
Filler(n) == [k \in 1..n |-> IF k % 7 = 0 THEN " " ELSE "x"]

TitlePrefixes ==
    {<<>>,
     <<"E", "R", "R", "O", "R", " ">>,
     <<"1", "2", ":", "0", "0", ":", "0", "1", ".", "0", "0", "0", " ",
       "E", "R", "R", "O", "R", " ", "d", "b", ":", " ">>,
     <<"[", "F", "A", "T", "A", "L", "]", " ", "4", "2", " ">>}

TitleLines ==
    {prefix \o Filler(n) :
        prefix \in TitlePrefixes,
        n \in (0..MaxShortTitle) \cup ((MaxTitleLen - 4)..MaxLongTitle)}
    \cup {<<"E", "R", "R", "O", "R", " ">> \o GenericTitle}

TitleInit ==
    /\ arg \in TitleLines
    /\ res = <<>>
    /\ TailInit /\ CounterInit /\ SaveIdle /\ ScanIdle /\ OtherIdle

ApplyExtractTitle ==
    /\ res = <<>>
    /\ res' = <<extract_clean_title(arg)>>
    /\ UNCHANGED <<arg, otherVars, tailVars, counterVars, saveVars, scanVars>>

TitleNext == ApplyExtractTitle

SpecTitle == TitleInit /\ [][TitleNext]_vars

----------------------------------------------------------------------------
(* Level detection under test: detect_log_level applied to lines of up to  *)
(* MaxTokens words, keywords in either case, inside longer words and       *)
(* inside colour sequences                                                 *)

MaxTokens == 3

LevelTokens ==
    {<<"E", "R", "R", "O", "R">>,
     <<"w", "a", "r", "n">>,
     <<"W", "a", "r", "n", "i", "n", "g">>,
     <<"i", "n", "f", "o">>,
     <<"D", "E", "B", "U", "G">>,
     <<"c", "r", "i", "t", "i", "c", "a", "l">>,
     <<"F", "A", "T", "A", "L">>,
     <<"E", "R", "R", "O", "R", "S">>,
     <<"x">>,
     <<ESC, "[", "3", "1", "m", "F", "A", "T", "A", "L", ESC, "[", "0", "m">>}

RECURSIVE JoinWords(_)
JoinWords(words) ==
    IF words = <<>> THEN <<>>
    ELSE IF Len(words) = 1 THEN words[1]
    ELSE words[1] \o <<" ">> \o JoinWords(Tail(words))

LevelLines == {JoinWords(words) : words \in SeqsUpTo(LevelTokens, MaxTokens)}

LevelInit ==
    /\ arg \in LevelLines
    /\ res = <<>>
    /\ TailInit /\ CounterInit /\ SaveIdle /\ ScanIdle /\ OtherIdle

ApplyDetectLogLevel ==
    /\ res = <<>>
    /\ res' = <<detect_log_level(arg)>>
    /\ UNCHANGED <<arg, otherVars, tailVars, counterVars, saveVars, scanVars>>

LevelNext == ApplyDetectLogLevel

SpecLevel == LevelInit /\ [][LevelNext]_vars

\* the keyword w stands in s as a whole word, in any mix of cases
OccursAsWord(w, s) ==
    \E a \in 1..Len(s) :
        LET b == a + Len(w) - 1
        IN  /\ b <= Len(s)
            /\ [n \in 1..Len(w) |-> ToUpper(s[a + n - 1])] = w
            /\ (a = 1 \/ s[a - 1] \notin WordChar)
            /\ (b = Len(s) \/ s[b + 1] \notin WordChar)

PriorityList ==
    <<<<"E", "R", "R", "O", "R">>, <<"W", "A", "R", "N">>,
      <<"W", "A", "R", "N", "I", "N", "G">>,
      <<"I", "N", "F", "O">>, <<"D", "E", "B", "U", "G">>,
      <<"C", "R", "I", "T", "I", "C", "A", "L">>,
      <<"F", "A", "T", "A", "L">>>>

PriorityNames ==
    <<"ERROR", "WARN", "WARNING", "INFO", "DEBUG", "CRITICAL", "FATAL">>

\* C12: the level of a line is the first keyword of the list ERROR, WARN,
\* WARNING, INFO, DEBUG, CRITICAL, FATAL that occurs as a whole word, in
\* any case, in the sanitized line, and UNKNOWN when none occurs; with
\* several keywords in the line the earliest in the list wins, wherever
\* they stand in the line
C12_FirstInPriorityList ==
    res # <<>> =>
        LET s == clean_line(arg)
            present == {n \in 1..7 : OccursAsWord(PriorityList[n], s)}
        IN  IF present = {} THEN res[1] = "UNKNOWN"
            ELSE \E n \in present :
                    /\ \A m \in present : n <= m
                    /\ res[1] = PriorityNames[n]

\* a line that starts with FATAL and holds WARN further right is WARN
C12_Witness ==
    /\ res = <<"WARN">>
    /\ Len(arg) > 5
    /\ SubSeq(arg, 1, 5) = <<"F", "A", "T", "A", "L">>

----------------------------------------------------------------------------
(* The monitor without a language model (use_llm False) beside the same   *)
(* log                                                                     *)

HeuristicInit ==
    /\ PureIdle
    /\ TailInit
    /\ CounterInit
    /\ OtherIdle
    /\ use_llm = FALSE
    /\ store \in {<<>>, <<KnownIssue>>}
    /\ audit = <<>>
    /\ cur = NoRecord
    /\ content = NoContent
    /\ reconciled = <<>>
    /\ pc = "poll"
    /\ i = 0
    /\ errors = <<>>

HeuristicNext ==
    \/ \E chunk \in LogChunks : WriteLog(chunk, MaxAppends)
    \/ \E fstate \in {"present", "missing", "unreadable"} : SetFileState(fstate)
    \/ Poll
    \/ ScanLine
    \/ ScanBlock
    \/ ExtractReturn
    \/ SaveAudit
    \/ SaveContent
    \/ SaveStore
    \/ CountErrors
    \/ Sleep
    \/ Interrupt

SpecHeuristic == HeuristicInit /\ [][HeuristicNext]_vars

\* C13: a poll that finds the file missing, or finds nothing appended
\* since the last poll, raises nothing, yields no line and no record, and
\* leaves the tail offset, the store, the audit file and every counter as
\* they were; the loop goes to its sleep
C13_EmptyPollChangesNothing ==
    [][(/\ pc = "poll"
        /\ pc' \notin {"poll", "stopped"}
        /\ \/ file_state = "missing"
           \/ file_state = "present" /\ last_position = Len(file))
       => /\ pc' = "sleep"
          /\ new_lines' = <<>>
          /\ UNCHANGED <<last_position, store, audit, counterVars, errors,
                         reconciled>>]_vars

\* the monitor sleeps after a poll that found the file missing, with
\* unread bytes in the file, an offset above 0 and records audited before
C13_Witness ==
    /\ pc = "sleep"
    /\ new_lines = <<>>
    /\ file_state = "missing"
    /\ 0 < last_position /\ last_position < Len(file)
    /\ audit # <<>>

\* C14: the audit array holds one entry per record that extract_errors
\* emitted, in the order of emission, whether or not the store call for
\* the record failed (the record emitted last is written by the save step
\* that follows its emission); entries are only ever appended
C14_AuditMirrorsRecords ==
    /\ [](pc # "stopped" =>
            LET pending == IF pc = "save_audit" THEN 1 ELSE 0
                saved == Len(errors) - pending
            IN  /\ Len(audit) = errors_found - pending
                /\ saved <= Len(audit)
                /\ SubSeq(audit, Len(audit) - saved + 1, Len(audit))
                      = SubSeq(errors, 1, saved)
                /\ \A n \in 1..Len(reconciled) :
                      reconciled[n].record = audit[n])
    /\ [][IsPrefix(audit, audit')]_vars

\* two cycles are over, the audit array holds two different records, and
\* the store call failed for the first
C14_Witness ==
    /\ pc = "sleep"
    /\ Len(audit) = 2
    /\ audit[1] # audit[2]
    /\ Len(errors) = 1
    /\ reconciled[1].raised
    /\ errors_found = 2

----------------------------------------------------------------------------
(* extract_errors with a stdout that cannot encode every character of the *)
(* log: batches of lines, one of which holds an accented letter            *)

FaultLines ==
    {<<"E", "R", "R", "O", "R", " ", "c", "a", "f", U00E9, " ", "d", "o", "w",
       "n", NL>>,
     <<"E", "R", "R", "O", "R", " ", "b", "o", "o", "m", NL>>,
     <<" ", " ", "a", "t", " ", "f", "r", "a", "m", "e", " ", "1", NL>>,
     <<"1", "2", ":", "0", "0", ":", "0", "2", ".", "0", "0", "0", " ", "F",
       "A", "T", "A", "L", " ", "d", "i", "s", "k", NL>>,
     <<"1", "2", ":", "0", "0", ":", "0", "3", ".", "0", "0", "0", " ", "I",
       "N", "F", "O", " ", "o", "k", NL>>}

FaultInit ==
    /\ PureIdle
    /\ file = <<>>
    /\ file_state = "present"
    /\ appends = 0
    /\ last_position = 0
    /\ tail_log = [prev |-> 0, eof |-> 0, reads |-> <<>>, text |-> <<>>]
    /\ new_lines \in SeqsUpTo(FaultLines, MaxBatch)
    /\ CounterInit
    /\ SaveIdle
    /\ OtherIdle
    /\ pc = "scan"
    /\ i = 0
    /\ errors = <<>>

FaultNext ==
    \/ ScanLine
    \/ ScanBlock
    \/ ScanBlockRaises
    \/ ExtractReturn
    \/ SaveAudit
    \/ SaveContent
    \/ SaveStore

SpecExtractFaults == FaultInit /\ [][FaultNext]_vars

\* C15: when the processing of the line at some index raises, that line
\* alone is skipped: failed_to_process counts the failure once, the scan
\* resumes at the index right after the failing one, and the block that
\* the line had opened is not dropped from the result
C15_OnlyFailingLineSkipped ==
    /\ failed_to_process = Len(skipped)
    /\ \A n \in 1..Len(skipped) :
          /\ skipped[n].resumed = skipped[n].at + 1
          /\ pc = "returned" =>
                \E k \in 1..Len(errors) :
                    errors[k].error_line
                        = clean_line(new_lines[skipped[n].at + 1])

\* the exception is counted once per failure and the loop goes on
C15_FailureCountedLoopGoesOn ==
    /\ failed_to_process = Len(skipped)
    /\ \A n \in 1..Len(skipped) : skipped[n].resumed = skipped[n].behind + 1

----------------------------------------------------------------------------
(* The same monitor under the scheduling of its loop: monitor() is one     *)
(* sequential loop, so a step of it that can be taken is taken; the        *)
(* environment (writes to the log, the state of the file, the interrupt)   *)
(* is under no obligation                                                  *)

MonitorStep ==
    \/ Poll
    \/ ScanLine
    \/ ScanBlock
    \/ ExtractReturn
    \/ SaveAudit
    \/ SaveContent
    \/ SaveStore
    \/ CountErrors
    \/ Sleep

Running ==
    pc \in {"poll", "scan", "save_audit", "save_content", "save_store",
            "returned", "sleep"}

\* Wherever the loop stands and is neither stopped nor crashed, one of the
\* steps of MonitorStep can be taken, and each of them changes pc or i.  To
\* decide ENABLED the model checker looks for one successor; this action
\* hands it one without computing a poll or a record.  Of the steps of the
\* monitor only the crash of Poll satisfies it, so that within the
\* behaviours of SpecHeuristic the steps of MonitorProgress are the steps of
\* MonitorStep and MonitorProgress is enabled exactly when MonitorStep is.
RunningHasSuccessor ==
    /\ Running
    /\ pc' = "crashed"
    /\ UNCHANGED <<i, errors, pureVars, otherVars, tailVars, counterVars,
                   saveVars>>

MonitorProgress == RunningHasSuccessor \/ MonitorStep

SpecHeuristicFair == SpecHeuristic /\ WF_vars(MonitorProgress)

\* how often the list logs holds the text context
TimesLogged(logs, context) ==
    Cardinality({j \in 1..Len(logs) : logs[j] = context})

\* how often the issue titled title in table st holds context in its logs
TimesInStore(st, title, context) ==
    LET rows == {k \in 1..Len(st) : st[k].title = title}
    IN  IF rows = {} THEN 0
        ELSE LET k == CHOOSE r \in rows : \A q \in rows : r <= q
             IN  TimesLogged(st[k].issue_logs, context)

\* the record of the n-th save_error has reached the table: the issue of
\* its title holds its context more often than before that save began
Reflected(n) ==
    /\ Len(reconciled) >= n
    /\ TimesInStore(store, reconciled[n].content.title,
                    reconciled[n].record.error_context)
          > TimesInStore(reconciled[n].before, reconciled[n].content.title,
                         reconciled[n].record.error_context)

\* C16: every record that save_error has handled is eventually reflected
\* in the store, also when its store call failed at the first attempt,
\* as long as the monitor is not stopped
C16_EventuallyInStore ==
    \A n \in 1..MaxAppends :
        [](Len(reconciled) >= n =>
              <>(Reflected(n) \/ pc \in {"stopped", "crashed"}))

\* a record whose store call raised is never reflected afterwards
C16_FailedRecordStaysOut ==
    \A n \in 1..Len(reconciled) : reconciled[n].raised => ~Reflected(n)

\* C17: the context of a record is its triggering line and all the lines
\* without a timestamp that follow it in the file, also when those lines
\* were appended after the poll that read the triggering line: once every
\* byte of the file has been read and the cycles are complete, the records
\* emitted so far are those of the blocks of the whole file
C17_BlockNotCutAtPoll ==
    (/\ pc \in {"poll", "sleep"}
     /\ last_position = Len(file))
    => audit = RecordsFrom(SplitLines(Decode(file)), 1)

\* what holds instead: every record is a block of the batch it was read in
C17_BlockEndsWithBatch ==
    pc = "returned" => errors = RecordsFrom(new_lines, 1)

\* C18: an interrupt stops the loop only after the cycle in progress is
\* complete: when the monitor has stopped, every line of the last batch has
\* been scanned, every emitted record has been audited and handed to the
\* store, and the records of the batch have been counted
C18_InterruptAfterCycle ==
    pc = "stopped" =>
        /\ i >= Len(new_lines)
        /\ Len(audit) = errors_found
        /\ Len(reconciled) = errors_found
        /\ total_errors = errors_found

\* C19: a failure of the lookup, the creation or the update for one record
\* stays inside save_error: errors_failed_to_insert grows by exactly one,
\* the record stays in the list that extract_errors returns, and the scan
\* goes on with the same batch, index, offset and counters as after a store
\* call that succeeds; failed_to_process is untouched and the loop does not
\* end
C19_StoreFailureContained ==
    [][(pc = "save_store" /\ pc' # "stopped")
       => LET done == reconciled'[Len(reconciled')]
          IN  /\ Len(reconciled') = Len(reconciled) + 1
              /\ pc' = "scan"
              /\ errors_failed_to_insert' =
                    errors_failed_to_insert + (IF done.raised THEN 1 ELSE 0)
              /\ done.raised => store' = store
              /\ errors' = errors
              /\ errors[Len(errors)] = done.record
              /\ UNCHANGED <<i, new_lines, last_position, audit,
                             total_processed, total_errors, errors_found,
                             failed_to_process>>]_vars

\* the store call of the first record of a batch of two failed at the
\* lookup, the second record was handled after it, the cycle was completed
\* and counted both records, and the next poll has taken place
C19_Witness ==
    /\ Len(reconciled) = 2
    /\ reconciled[1].raised
    /\ reconciled[1].branch = "lookup"
    /\ Len(new_lines) = 0
    /\ errors_failed_to_insert >= 1
    /\ total_errors = 2
    /\ failed_to_process = 0
    /\ pc = "sleep"

----------------------------------------------------------------------------
(* Two monitors on the same log and the same issues table.  Both have read *)
(* the same lines, each of which is a block of its own; each monitor runs  *)
(* save_error for the blocks in order, and the lookup and the write of one *)
(* save_error are two calls of the service, between which the other        *)
(* monitor may act.                                                        *)

MaxRaceBlocks == 2

Monitors == {1, 2}

RaceLines ==
    {<<"1", "2", ":", "0", "0", ":", "0", "1", ".", "0", "0", "0", " ", "E",
       "R", "R", "O", "R", " ", "d", "a", "t", "a", "b", "a", "s", "e", " ",
       "c", "o", "n", "n", "e", "c", "t", "i", "o", "n", " ", "r", "e", "f",
       "u", "s", "e", "d", NL>>,
     <<"1", "2", ":", "0", "0", ":", "0", "2", ".", "0", "0", "0", " ", "F",
       "A", "T", "A", "L", " ", "d", "i", "s", "k", " ", "f", "u", "l", "l",
       " ", "o", "n", " ", "v", "o", "l", "u", "m", "e", NL>>}

\* the record of the one-line block of line, with the title and the
\* description that generate_ticket_content gives with use_llm False
RaceJob(line) ==
    LET error_record == MakeRecord(detect_log_level(line), <<clean_line(line)>>)
    IN  [record |-> error_record,
         title |-> extract_clean_title(error_record.error_line),
         description |-> error_record.error_context]

RaceInit ==
    /\ PureIdle
    /\ file = <<>>
    /\ file_state = "present"
    /\ appends = 0
    /\ last_position = 0
    /\ tail_log = [prev |-> 0, eof |-> 0, reads |-> <<>>, text |-> <<>>]
    /\ new_lines \in SeqsUpTo(RaceLines, MaxRaceBlocks) \ {<<>>}
    /\ CounterInit
    /\ use_llm = FALSE
    /\ audit = <<>>
    /\ store \in {<<>>, <<KnownIssue>>}
    /\ cur = NoRecord
    /\ content = NoContent
    /\ reconciled = <<>>
    /\ ScanIdle
    /\ skipped = <<>>
    /\ runs = <<>>
    /\ instances =
          [m \in Monitors |->
              [jobs |-> [k \in 1..Len(new_lines) |-> RaceJob(new_lines[k])],
               handled |-> 0,
               step |-> "lookup",
               found |-> <<>>,
               failed |-> 0]]

\* existing_issue = self.issue_service.get_issue_by_title(title) in monitor
\* m; with the database down the call raises and save_error counts it
RaceLookup(m) ==
    LET me == instances[m]
        job == me.jobs[me.handled + 1]
    IN  /\ me.handled < Len(me.jobs)
        /\ me.step = "lookup"
        /\ \E db_up \in BOOLEAN :
              instances' =
                  [instances EXCEPT ![m] =
                      IF db_up
                      THEN [me EXCEPT
                               !.found = get_issue_by_title(store, job.title),
                               !.step = "write"]
                      ELSE [me EXCEPT
                               !.handled = @ + 1,
                               !.failed = @ + 1]]
        /\ UNCHANGED <<pureVars, skipped, runs, tailVars, counterVars, saveVars,
                       scanVars>>

\* update_issue or create_issue in monitor m, from what its lookup returned
RaceWrite(m) ==
    LET me == instances[m]
        job == me.jobs[me.handled + 1]
        done == ReconcileWrite(store, me.found, job.record, job.title,
                               job.description)
    IN  /\ me.handled < Len(me.jobs)
        /\ me.step = "write"
        /\ store' = done.store
        /\ reconciled' =
              Append(reconciled,
                     [who |-> m, block |-> me.handled + 1,
                      record |-> job.record, title |-> job.title,
                      branch |-> done.branch, raised |-> done.raised,
                      before |-> store, after |-> done.store])
        /\ instances' =
              [instances EXCEPT ![m] =
                  [me EXCEPT
                      !.handled = @ + 1,
                      !.step = "lookup",
                      !.found = <<>>,
                      !.failed = @ + (IF done.raised THEN 1 ELSE 0)]]
        /\ UNCHANGED <<pureVars, skipped, runs, tailVars, counterVars, scanVars,
                       use_llm, audit, cur, content>>

RaceStep(m) == RaceLookup(m) \/ RaceWrite(m)

RaceNext == \E m \in Monitors : RaceStep(m)

SpecRace == RaceInit /\ [][RaceNext]_vars

\* each monitor is a process of its own that runs on
SpecRaceFair == SpecRace /\ \A m \in Monitors : WF_vars(RaceStep(m))

\* two issues carry the same title
SameTitleTwice ==
    \E a, b \in 1..Len(store) : a # b /\ store[a].title = store[b].title

\* the writes of both monitors for one block went through
BlockCountedTwice ==
    \E a, b \in 1..Len(reconciled) :
        /\ a # b
        /\ reconciled[a].block = reconciled[b].block
        /\ ~reconciled[a].raised
        /\ ~reconciled[b].raised

\* the occurrence of the issue titled title in table st, 0 without one
OccurrenceOf(st, title) ==
    LET rows == {k \in 1..Len(st) : st[k].title = title}
    IN  IF rows = {} THEN 0
        ELSE st[CHOOSE r \in rows : \A q \in rows : r <= q].occurrence

\* two updates of one issue went through and the later one did not raise
\* the occurrence above what the earlier one had written
IncrementLost ==
    \E a, b \in 1..Len(reconciled) :
        /\ a < b
        /\ reconciled[a].title = reconciled[b].title
        /\ reconciled[a].branch = "update" /\ ~reconciled[a].raised
        /\ reconciled[b].branch = "update" /\ ~reconciled[b].raised
        /\ OccurrenceOf(reconciled[b].after, reconciled[b].title)
              <= OccurrenceOf(reconciled[a].after, reconciled[a].title)

RaceDamage == SameTitleTwice \/ BlockCountedTwice \/ IncrementLost

C20_StoreNeverWritten ==
    /\ ~RaceDamage
    /\ \A n \in 1..Len(reconciled) :
          reconciled[n].raised /\ reconciled[n].after = reconciled[n].before

\* the window is there: both monitors have looked up the same block and
\* neither has written yet
C20_BothBetweenLookupAndWrite ==
    /\ instances # <<>>
    /\ instances[1].step = "write" /\ instances[2].step = "write"
    /\ instances[1].handled = instances[2].handled

----------------------------------------------------------------------------
(* The monitor ended and started again.  The offset and the counters live  *)
(* in the object only (log_monitor.py:24-29); the watched file, the audit  *)
(* file, which __init__ leaves alone when it exists (31-32), and the       *)
(* issues table outlive the process.                                       *)

MaxRestarts == 1

\* The process ends wherever it stands and a new AdvancedLogMonitor is
\* built on the same paths and monitor() is called: what the ended process
\* leaves behind is noted in runs
Restart(limit) ==
    /\ Len(runs) < limit
    /\ pc # "idle"
    /\ runs' = Append(runs, [reconciled |-> Len(reconciled),
                             store |-> store,
                             last_position |-> last_position])
    /\ last_position' = 0
    /\ total_processed' = 0
    /\ total_errors' = 0
    /\ failed_to_process' = 0
    /\ errors_found' = 0
    /\ errors_failed_to_insert' = 0
    /\ new_lines' = <<>>
    /\ i' = 0
    /\ errors' = <<>>
    /\ cur' = NoRecord
    /\ content' = NoContent
    /\ pc' = "poll"
    /\ UNCHANGED <<file, file_state, appends, tail_log, use_llm, audit,
                   store, reconciled, pureVars, skipped, instances>>

RestartNext == HeuristicNext \/ Restart(MaxRestarts)

SpecRestart == HeuristicInit /\ [][RestartNext]_vars

\* the new process has finished a cycle that read lines: it has read the
\* file from offset 0 and handled every block of it
CycleDoneAfterRestart ==
    /\ runs # <<>>
    /\ pc \in {"poll", "sleep"}
    /\ total_processed > 0

\* the database answered every call so far
DatabaseUpThroughout == \A n \in 1..Len(reconciled) : reconciled[n].db_up

\* the occurrence of the issue of every record reconciled before the
\* restart is higher than at the restart, and its context is once more in
\* the issue_logs of that issue
CountedAgainAfterRestart ==
    (CycleDoneAfterRestart /\ DatabaseUpThroughout) =>
        \A n \in 1..runs[Len(runs)].reconciled :
            LET title == reconciled[n].content.title
                context == reconciled[n].record.error_context
                left == runs[Len(runs)].store
            IN  /\ OccurrenceOf(store, title) > OccurrenceOf(left, title)
                /\ TimesInStore(store, title, context)
                      > TimesInStore(left, title, context)

\* save_error has been called in the new process with every record it was
\* called with before the restart
SavedAgainAfterRestart ==
    CycleDoneAfterRestart =>
        \A n \in 1..runs[Len(runs)].reconciled :
            \E m \in (runs[Len(runs)].reconciled + 1)..Len(reconciled) :
                reconciled[m].record = reconciled[n].record

\* C21: after a restart the offset is 0 and the first poll returns the
\* whole file; once the new process has handled it, every block that was
\* reconciled before the restart has been reconciled again, the occurrence
\* of its issue is incremented again and its context is appended to the
\* issue_logs again
C21_ReconciledAgainAfterRestart ==
    SavedAgainAfterRestart /\ CountedAgainAfterRestart

\* the first half alone: every block reconciled before the restart is
\* handed to save_error again as the same record
C21_SameRecordsAfterRestart == SavedAgainAfterRestart

\* what does hold of a restart: the offset is 0 (and the counters are),
\* and a poll from offset 0 of a file that is there returns all of it
C21_RestartReadsFromBeginning ==
    [][/\ Len(runs') > Len(runs) => last_position' = 0 /\ total_processed' = 0
       /\ (/\ pc = "poll" /\ pc' \in {"scan", "sleep"}
           /\ last_position = 0 /\ file_state = "present")
             => /\ Flatten(new_lines') = Decode(file)
                /\ last_position' = Len(file)]_vars

\* and every line that opened a block before the restart is read again
\* and is part of a block that save_error is called with
C21_LinesInABlockAgain ==
    CycleDoneAfterRestart =>
        \A n \in 1..runs[Len(runs)].reconciled :
            \E m \in (runs[Len(runs)].reconciled + 1)..Len(reconciled) :
                Contains(reconciled[n].record.error_line,
                         reconciled[m].record.error_context)

\* a block was reconciled, the process restarted and the new process has
\* gone through the file
C21_RestartAfterReconcile ==
    /\ CycleDoneAfterRestart
    /\ DatabaseUpThroughout
    /\ runs[Len(runs)].reconciled > 0
    /\ Len(reconciled) > runs[Len(runs)].reconciled

----------------------------------------------------------------------------
(* One monitor as the only writer of the issues table *)

\* the save_error calls so far that were made for this title
ReconciledTo(title) ==
    {n \in 1..Len(reconciled) : reconciled[n].content.title = title}

\* C22: with one monitor as the only writer, starting from an empty table,
\* and a database that answers every call, at the end of every cycle each
\* title that records were reconciled to has exactly one issue, whose
\* occurrence is the number of those records and the length of its
\* issue_logs
C22_OccurrenceCountsRecords ==
    (/\ pc \in {"poll", "sleep"}
     /\ DatabaseUpThroughout
     /\ reconciled # <<>>
     /\ reconciled[1].before = <<>>)
        => \A n \in 1..Len(reconciled) :
              LET title == reconciled[n].content.title
                  rows == RowsByTitle(store, title)
              IN  /\ Cardinality(rows) = 1
                  /\ \A k \in rows :
                        /\ store[k].occurrence
                              = Cardinality(ReconciledTo(title))
                        /\ Len(store[k].issue_logs)
                              = Cardinality(ReconciledTo(title))

\* what does hold of the table: no two issues have the same title and the
\* occurrence of an issue is the length of its issue_logs, the table never
\* being written
C22_NoTitleTwice ==
    /\ ~SameTitleTwice
    /\ \A k \in 1..Len(store) :
          store[k].occurrence = Len(store[k].issue_logs)
    /\ \A n \in 1..Len(reconciled) :
          reconciled[n].after = reconciled[n].before

\* two records of one title have gone through save_error, the database
\* answering
C22_TwoRecordsOfOneTitle ==
    /\ pc \in {"poll", "sleep"}
    /\ DatabaseUpThroughout
    /\ \E n \in 1..Len(reconciled) :
          Cardinality(ReconciledTo(reconciled[n].content.title)) >= 2

----------------------------------------------------------------------------
(* The tailer beside a file that is also cut short: truncated in place    *)
(* (log rotation with copytruncate) or replaced by a shorter file          *)

\* what a replacement file is made of
FreshBytes == {"b", NL}

\* The environment truncates the file to a prefix of itself or puts a
\* shorter file in its place.  tail_log.reads counts, for the bytes of the
\* file that is there now, the polls that read them.
CutFile(shorter) ==
    /\ file_state = "present"
    /\ Len(shorter) < Len(file)
    /\ file' = shorter
    /\ tail_log' = [tail_log EXCEPT !.reads = [b \in 1..Len(shorter) |-> 0]]
    /\ UNCHANGED <<file_state, appends, last_position, new_lines>>

TruncateNext ==
    \/ /\ \E chunk \in TailBytes : AppendToFile(chunk, MaxTailBytes)
       /\ UNCHANGED <<pureVars, otherVars, counterVars, saveVars, scanVars>>
    \/ /\ \E n \in 0..(Len(file) - 1) : CutFile(Slice(file, 1, n))
       /\ UNCHANGED <<pureVars, otherVars, counterVars, saveVars, scanVars>>
    \/ /\ \E shorter \in SeqsUpTo(FreshBytes, MaxTailBytes) : CutFile(shorter)
       /\ UNCHANGED <<pureVars, otherVars, counterVars, saveVars, scanVars>>
    \/ /\ PollOnly
       /\ UNCHANGED <<pureVars, otherVars, counterVars, saveVars, scanVars>>

SpecTruncate == TailOnlyInit /\ [][TruncateNext]_vars

\* C23: the offset never decreases, whatever happens to the file; a poll
\* (the only step that leaves the file as it is) of a file that does not
\* reach beyond the offset returns no lines and keeps the offset, and a
\* poll of a file that does returns the text of the bytes above the offset
\* and reads none of the bytes below it
C23_OffsetNeverDecreases ==
    [][/\ last_position' >= last_position
       /\ (file' = file) =>
             /\ \A b \in 1..Len(file) :
                   b <= last_position
                      => tail_log'.reads[b] = tail_log.reads[b]
             /\ Len(file) <= last_position
                   => new_lines' = <<>> /\ last_position' = last_position
             /\ Len(file) > last_position
                   => /\ last_position' = Len(file)
                      /\ Flatten(new_lines')
                            = Decode(Slice(file, last_position + 1,
                                           Len(file)))]_vars

\* the file was cut below the offset and has grown past it again, and the
\* last poll returned lines: a byte of the present file below the offset
\* that poll found has been read by no poll
C23_Witness ==
    /\ new_lines # <<>>
    /\ tail_log.prev > 0
    /\ tail_log.prev < last_position
    /\ \E b \in 1..tail_log.prev : b <= Len(file) /\ tail_log.reads[b] = 0

\* a poll has found the file shorter than the offset
C23_PolledShorterFile ==
    /\ tail_log.eof < tail_log.prev
    /\ tail_log.eof = Len(file)
    /\ new_lines = <<>>
    /\ last_position = tail_log.prev

----------------------------------------------------------------------------
(* The counters of the monitor, beside a log that also holds a line whose *)
(* print may fail                                                          *)

FailingChunk ==
    <<"E", "R", "R", "O", "R", " ", "c", "a", "f", U00E9, " ", "d", "o", "w",
      "n", NL>>

CountersNext ==
    \/ \E chunk \in LogChunks \cup {FailingChunk} : WriteLog(chunk, MaxAppends)
    \/ \E fstate \in {"present", "missing", "unreadable"} : SetFileState(fstate)
    \/ Poll
    \/ ScanLine
    \/ ScanBlock
    \/ ScanBlockRaises
    \/ ExtractReturn
    \/ SaveAudit
    \/ SaveContent
    \/ SaveStore
    \/ CountErrors
    \/ Sleep
    \/ Interrupt

SpecCounters == HeuristicInit /\ [][CountersNext]_vars

\* the loop stands between two cycles: before the poll or in its sleep
AtCycleBoundary == pc \in {"poll", "sleep"}

\* the step is a call of read_new_lines that returned
PollReturns == pc = "poll" /\ pc' \in {"scan", "sleep"}

\* C24: at every cycle boundary errors_found equals total_errors and
\* errors_failed_to_insert is at most errors_found; total_processed grows
\* by the number of lines of every poll and by nothing else, so that it is
\* the number of lines returned by all polls so far; no counter decreases
C24_CountersAtCycleBoundary ==
    /\ [](AtCycleBoundary =>
             /\ errors_found = total_errors
             /\ errors_failed_to_insert <= errors_found)
    /\ [][/\ total_processed' =
                total_processed + (IF PollReturns THEN Len(new_lines') ELSE 0)
          /\ total_errors' >= total_errors
          /\ failed_to_process' >= failed_to_process
          /\ errors_found' >= errors_found
          /\ errors_failed_to_insert' >= errors_failed_to_insert]_vars

\* the loop sleeps after its second cycle with lines: every counter has
\* moved, one block was dropped by a failure of the scan and the store
\* call of another failed
C24_Witness ==
    /\ pc = "sleep"
    /\ total_processed >= 2
    /\ total_errors >= 1
    /\ errors_found = total_errors
    /\ failed_to_process >= 1
    /\ errors_failed_to_insert >= 1
    /\ tail_log.prev > 0
    /\ new_lines # <<>>

----------------------------------------------------------------------------
(* Termination of extract_errors.  The call is one sequential loop: a step *)
(* of it that can be taken is taken.                                        *)

\* the call has not returned
Extracting == pc \in {"scan", "save_audit", "save_content", "save_store"}

\* Wherever the call stands before its return one of the steps of FaultNext
\* can be taken.  This action hands the model checker a successor without
\* computing a block or a record; no step of extract_errors satisfies it,
\* so that within the behaviours of SpecExtractFaults the steps of
\* ExtractProgress are the steps of FaultNext and ExtractProgress is
\* enabled exactly when FaultNext is.
ExtractingHasSuccessor ==
    /\ Extracting
    /\ pc' = "crashed"
    /\ UNCHANGED <<i, errors, pureVars, otherVars, tailVars, counterVars,
                   saveVars>>

ExtractProgress == ExtractingHasSuccessor \/ FaultNext

SpecExtractFaultsFair == SpecExtractFaults /\ WF_vars(ExtractProgress)

\* the step is one pass through the body of the outer loop, or the part of
\* it up to the call of save_error
ScanStep == pc = "scan" /\ (i' # i \/ pc' = "save_audit")

\* C25: on every batch the index never exceeds the length of the batch and
\* the records collected are at most as many as the lines of the batch
C25_IndexNeverExceedsBatch ==
    /\ i <= Len(new_lines)
    /\ Len(errors) <= Len(new_lines)

\* what does hold of the loop: every pass through its body strictly
\* increases the index and no other step changes it, the index is at most
\* one above the length of the batch, the records are at most as many as
\* the lines, and every call returns
C25_EveryPassAdvances ==
    /\ [][IF ScanStep THEN i' > i ELSE i' = i]_vars
    /\ [](i <= Len(new_lines) + 1 /\ Len(errors) <= Len(new_lines))
    /\ <>(pc = "returned")

\* the call has returned with the index above the length of the batch: the
\* last block of the batch was dropped by a failure
C25_ReturnedAboveBatch ==
    /\ pc = "returned"
    /\ i = Len(new_lines) + 1
    /\ skipped # <<>>
    /\ skipped[Len(skipped)].behind = Len(new_lines)

=============================================================================
